---- MODULE Spec2Model ----
(***************************************************************************)
(* RSS digest generator (src/fetch.py): fetch_feed, parse_published,       *)
(* _clean_summary and build_digest.                                         *)
(*                                                                          *)
(* Strings are sequences of one-character strings.  A point in time is an  *)
(* integer number of hours after datetime.min.  A dictionary field that    *)
(* may be missing is a record [has, str, val]; a struct_time attribute     *)
(* that may be None is a record [present, valid, hour].                    *)
(*                                                                          *)
(* Three specifications share the module:                                   *)
(*   Spec         build_digest over a list of configured feeds             *)
(*   SpecFetch    one call of fetch_feed                                   *)
(*   SpecSummary  one call of _clean_summary                               *)
(***************************************************************************)
EXTENDS Integers, Sequences, FiniteSets, TLC

VARIABLES
    \* build_digest
    pc,            \* position in build_digest: "fetch", "sort", "group", "done", "aborted"
    feeds,         \* config["feeds"]
    max_age,       \* settings max_age_hours
    max_per_feed,  \* settings max_articles_per_feed
    all_articles,  \* the flat list
    categories,    \* per-category tally
    grouped,       \* category -> articles
    total,         \* len(all_articles) handed to the template
    fetched,       \* history: what fetch_feed returned for each feed processed so far
    outcomes,      \* history: the response of each feed processed: "error", "empty", "parsed"
    presort,       \* history: all_articles just before the sort
    \* one call of fetch_feed
    fpc,           \* "call", "returned", "raised"
    f_max_age, f_max_articles,
    f_now,         \* datetime.now(timezone.utc) read by the call
    f_response,    \* what the network and feedparser delivered
    f_articles,    \* the returned list
    \* one call of _clean_summary
    spc,           \* "call", "returned"
    raw, decoded, summary

digestVars  == <<pc, feeds, max_age, max_per_feed, all_articles, categories,
                 grouped, total, fetched, outcomes, presort>>
fetchVars   == <<fpc, f_max_age, f_max_articles, f_now, f_response, f_articles>>
summaryVars == <<spc, raw, decoded, summary>>
vars        == <<digestVars, fetchVars, summaryVars>>

----------------------------------------------------------------------------
(* Bounds *)

MaxEntries     == 3   \* entries in a response of SpecFetch
MaxCap         == 2   \* max_articles ranges over 1..MaxCap
MaxFeeds       == 2   \* configured feeds of Spec
MaxPieces      == 3   \* pieces a raw summary of SpecSummary is put together from

(* Program constants *)

DatetimeMin   == 0     \* datetime.min, the sort key of an undated article
ScanFactor    == 2     \* parsed.entries[:max_articles * 2]
SummaryLimit  == 280   \* clean[:280]

----------------------------------------------------------------------------
(* Strings *)

NoTitle     == <<"N","o"," ","t","i","t","l","e">>
NoLink      == <<"#">>
DateUnknown == <<"D","a","t","e"," ","u","n","k","n","o","w","n">>
General     == "General"
Ellipsis    == "ELLIPSIS"   \* the one character U+2026

\* the 29 characters that str.strip() and str.split() take for whitespace; a
\* character that has no escape is written by its code point
Whitespace ==
    {"\t", "\n", "U+000B", "\f", "\r", "U+001C", "U+001D", "U+001E", "U+001F", " ",
     "U+0085", "U+00A0", "U+1680", "U+2000", "U+2001", "U+2002", "U+2003", "U+2004",
     "U+2005", "U+2006", "U+2007", "U+2008", "U+2009", "U+200A", "U+2028", "U+2029",
     "U+202F", "U+205F", "U+3000"}

IsSpace(c) == c \in Whitespace

\* str.strip()
RECURSIVE LStrip(_)
LStrip(s) == IF s # <<>> /\ IsSpace(Head(s)) THEN LStrip(Tail(s)) ELSE s

RECURSIVE RStrip(_)
RStrip(s) == IF s # <<>> /\ IsSpace(s[Len(s)]) THEN RStrip(SubSeq(s, 1, Len(s) - 1)) ELSE s

Strip(s) == RStrip(LStrip(s))

StartsWith(s, p) == Len(s) >= Len(p) /\ SubSeq(s, 1, Len(p)) = p

\* str.replace(old, new): every non-overlapping occurrence, left to right
RECURSIVE Replace(_, _, _)
Replace(s, old, new) ==
    IF s = <<>> THEN <<>>
    ELSE IF StartsWith(s, old)
         THEN new \o Replace(SubSeq(s, Len(old) + 1, Len(s)), old, new)
         ELSE <<Head(s)>> \o Replace(Tail(s), old, new)

\* position of the first ">" at or after i, 0 when there is none
RECURSIVE NextGt(_, _)
NextGt(s, i) ==
    IF i > Len(s) THEN 0
    ELSE IF s[i] = ">" THEN i
    ELSE NextGt(s, i + 1)

\* re.sub(r"<[^>]+>", "", raw) from position i on
RECURSIVE StripTagsFrom(_, _)
StripTagsFrom(s, i) ==
    IF i > Len(s) THEN <<>>
    ELSE IF s[i] = "<" /\ NextGt(s, i + 1) > i + 1
         THEN StripTagsFrom(s, NextGt(s, i + 1) + 1)
         ELSE <<s[i]>> \o StripTagsFrom(s, i + 1)

StripTags(s) == StripTagsFrom(s, 1)

Amp  == <<"&","a","m","p",";">>
Lt   == <<"&","l","t",";">>
Gt   == <<"&","g","t",";">>
Apos == <<"&","#","3","9",";">>
Quot == <<"&","q","u","o","t",";">>

\* the chain of five replace calls
DecodeEntities(s) ==
    Replace(Replace(Replace(Replace(Replace(s,
        Amp, <<"&">>), Lt, <<"<">>), Gt, <<">">>), Apos, <<"'">>), Quot, <<"\"">>)

\* " ".join(clean.split()); out is the text joined so far, gap says that
\* whitespace was seen since the last word character
RECURSIVE CollapseFrom(_, _, _)
CollapseFrom(s, out, gap) ==
    IF s = <<>> THEN out
    ELSE IF IsSpace(Head(s)) THEN CollapseFrom(Tail(s), out, TRUE)
    ELSE CollapseFrom(Tail(s),
                      out \o (IF gap /\ out # <<>> THEN <<" ">> ELSE <<>>) \o <<Head(s)>>,
                      FALSE)

CollapseWhitespace(s) == CollapseFrom(s, <<>>, FALSE)

Truncate(s) ==
    IF Len(s) > SummaryLimit THEN SubSeq(s, 1, SummaryLimit) \o <<Ellipsis>> ELSE s

_clean_summary(r) == Truncate(CollapseWhitespace(DecodeEntities(StripTags(r))))

----------------------------------------------------------------------------
(* Feed entries as feedparser exposes them *)

Field(v)  == [has |-> TRUE,  str |-> TRUE,  val |-> v]
Missing   == [has |-> FALSE, str |-> TRUE,  val |-> <<>>]
NonString == [has |-> TRUE,  str |-> FALSE, val |-> <<>>]

\* dict.get(key, default)
Get(field, default) == IF field.has THEN field ELSE Field(default)

StructTime(h) == [present |-> TRUE,  valid |-> TRUE,  hour |-> h]
BadTime       == [present |-> TRUE,  valid |-> FALSE, hour |-> 0]   \* e.g. (2024, 2, 30, ...)
NoTime        == [present |-> FALSE, valid |-> TRUE,  hour |-> 0]   \* attribute absent or None

NoDate      == [raised |-> FALSE, some |-> FALSE, hour |-> 0]
Datetime(h) == [raised |-> FALSE, some |-> TRUE,  hour |-> h]
ValueError  == [raised |-> TRUE,  some |-> FALSE, hour |-> 0]

\* datetime(*t[:6], tzinfo=timezone.utc)
MakeDatetime(t) == IF t.valid THEN Datetime(t.hour) ELSE ValueError

parse_published(entry) ==
    IF entry.published_parsed.present THEN MakeDatetime(entry.published_parsed)
    ELSE IF entry.updated_parsed.present THEN MakeDatetime(entry.updated_parsed)
    ELSE NoDate

\* the calendar of datetime: days of the proleptic Gregorian calendar are
\* counted from 0 for January 1 of year 1
DaysIn400Years == 146097
DaysIn100Years == 36524
DaysIn4Years   == 1461
DaysInYear     == 365

MonthNames ==
    <<"Jan", "Feb", "Mar", "Apr", "May", "Jun", "Jul", "Aug", "Sep", "Oct", "Nov", "Dec">>

DaysInMonth(month, leap) ==
    IF month = 2 THEN (IF leap THEN 29 ELSE 28)
    ELSE IF month \in {4, 6, 9, 11} THEN 30
    ELSE 31

\* month and day of the day numbered n (from 0) of a year
RECURSIVE MonthDayFrom(_, _, _)
MonthDayFrom(n, month, leap) ==
    IF n < DaysInMonth(month, leap) THEN [month |-> month, day |-> n + 1]
    ELSE MonthDayFrom(n - DaysInMonth(month, leap), month + 1, leap)

\* month and day of the date that is `days` days after January 1 of year 1
MonthDay(days) ==
    LET n400 == days \div DaysIn400Years
        r400 == days % DaysIn400Years
        n100 == r400 \div DaysIn100Years
        r100 == r400 % DaysIn100Years
        n4   == r100 \div DaysIn4Years
        r4   == r100 % DaysIn4Years
        n1   == r4 \div DaysInYear
        r1   == r4 % DaysInYear
    IN  IF n1 = 4 \/ n100 = 4 THEN [month |-> 12, day |-> 31]
        ELSE MonthDayFrom(r1, 1, n1 = 3 /\ (n4 # 24 \/ n100 = 3))

\* pub.strftime("%-I:%M %p MIDDOT %b %-d"); hour 0 is 12:00 AM on Jan 1 of
\* year 1; "MIDDOT" stands for the one character U+00B7
Strftime(h) ==
    <<ToString((((h % 24) + 11) % 12) + 1), ":", "0", "0", " ",
      IF (h % 24) < 12 THEN "AM" ELSE "PM", " ", "MIDDOT", " ",
      MonthNames[MonthDay(h \div 24).month], " ",
      ToString(MonthDay(h \div 24).day)>>

\* the optional published value stored in the article
Published(pub) == [some |-> pub.some, hour |-> pub.hour]

\* articles.append({...}) : the dictionary
Article(entry, pub, name, category) ==
    [title         |-> Strip(Get(entry.title, NoTitle).val),
     link          |-> Get(entry.link, NoLink).val,
     summary       |-> _clean_summary(Get(entry.summary, <<>>).val),
     published     |-> Published(pub),
     published_str |-> IF pub.some THEN Strftime(pub.hour) ELSE DateUnknown,
     source        |-> name,
     category      |-> category]

\* entry.get("title", "No title").strip() on a value that is no string
TitleRaises(entry) == ~Get(entry.title, NoTitle).str

\* _clean_summary(entry.get("summary", "")) on a value that is no string:
\* re.sub raises TypeError
SummaryRaises(entry) == ~Get(entry.summary, <<>>).str

\* the age test with <= in the place of <
TooOldOrEqual(pub, cutoff) == pub.some /\ pub.hour <= cutoff

\* if pub and pub < cutoff: continue
TooOld(pub, cutoff) == pub.some /\ pub.hour < cutoff

\* the stop test with > in the place of >=
CapExceeded(articles, max_articles) == Len(articles) > max_articles

\* if len(articles) >= max_articles: break
CapReached(articles, max_articles) == Len(articles) >= max_articles

Min(a, b) == IF a <= b THEN a ELSE b

\* the loop over parsed.entries with no slice
WholeFeed(entries, max_articles) == entries

\* parsed.entries[:max_articles * 2]
ScanWindow(entries, max_articles) ==
    SubSeq(entries, 1, Min(Len(entries), max_articles * ScanFactor))

Returned(articles) == [raised |-> FALSE, articles |-> articles]
Raised             == [raised |-> TRUE,  articles |-> <<>>]

\* the for loop of fetch_feed from position i on
RECURSIVE ScanEntries(_, _, _, _, _, _, _)
ScanEntries(entries, i, articles, cutoff, max_articles, name, category) ==
    IF i > Len(entries) THEN Returned(articles)
    ELSE LET entry == entries[i]
             pub   == parse_published(entry)
         IN  IF pub.raised THEN Raised
             ELSE IF TooOld(pub, cutoff)
                  THEN ScanEntries(entries, i + 1, articles, cutoff, max_articles,
                                   name, category)
             ELSE IF TitleRaises(entry) \/ SummaryRaises(entry) THEN Raised
             ELSE LET more == Append(articles, Article(entry, pub, name, category))
                  IN  IF CapReached(more, max_articles) THEN Returned(more)
                      ELSE ScanEntries(entries, i + 1, more, cutoff, max_articles,
                                       name, category)

\* feed_config.get("category", "General")
CategoryOf(feed_config) ==
    IF feed_config.category.has THEN feed_config.category.val ELSE General

\* the request made outside the try block
TransportErrorPropagates == Raised

\* the try block: a transport error is caught and the feed yields []
OnTransportError == Returned(<<>>)

\* response: [status: "error" | "ok", entries]; now: datetime.now(timezone.utc)
fetch_feed(feed_config, response, now, max_age_hours, max_articles) ==
    IF response.status = "error" THEN OnTransportError
    ELSE IF response.entries = <<>> THEN Returned(<<>>)
    ELSE ScanEntries(ScanWindow(response.entries, max_articles), 1, <<>>,
                     now - max_age_hours, max_articles,
                     feed_config.name, CategoryOf(feed_config))

----------------------------------------------------------------------------
(* build_digest: the sort and the grouping *)

\* key=lambda a: a["published"] or datetime.min
SortKey(a) == IF a.published.some THEN a.published.hour ELSE DatetimeMin

\* a sort that puts an element in front of the elements of equal key, as
\* sorting oldest-first and reversing does
RECURSIVE InsertBeforeEqual(_, _)
InsertBeforeEqual(sorted, a) ==
    IF sorted = <<>> THEN <<a>>
    ELSE IF (IF Head(sorted).published.some THEN Head(sorted).published.hour ELSE DatetimeMin)
            > (IF a.published.some THEN a.published.hour ELSE DatetimeMin)
         THEN <<Head(sorted)>> \o InsertBeforeEqual(Tail(sorted), a)
         ELSE <<a>> \o sorted

\* where list.sort(reverse=True) puts one more element: behind every element
\* whose key is not smaller
RECURSIVE InsertNewestFirst(_, _)
InsertNewestFirst(sorted, a) ==
    IF sorted = <<>> THEN <<a>>
    ELSE IF SortKey(Head(sorted)) >= SortKey(a)
         THEN <<Head(sorted)>> \o InsertNewestFirst(Tail(sorted), a)
         ELSE <<a>> \o sorted

RECURSIVE SortFrom(_, _)
SortFrom(rest, sorted) ==
    IF rest = <<>> THEN sorted
    ELSE SortFrom(Tail(rest), InsertNewestFirst(sorted, Head(rest)))

\* all_articles.sort(key=..., reverse=True)
SortNewestFirst(articles) == SortFrom(articles, <<>>)

EmptyDict == [c \in {} |-> <<>>]

\* d.setdefault(key, default)
SetDefault(d, key, default) == IF key \in DOMAIN d THEN d ELSE d @@ (key :> default)

\* insert(0, article) in the place of append(article)
PrependToGroup(g, a) ==
    [SetDefault(g, a.category, <<>>) EXCEPT ![a.category] = <<a>> \o @]

\* grouped.setdefault(article["category"], []).append(article)
AddToGroup(g, a) ==
    [SetDefault(g, a.category, <<>>) EXCEPT ![a.category] = Append(@, a)]

RECURSIVE GroupFrom(_, _)
GroupFrom(articles, g) ==
    IF articles = <<>> THEN g
    ELSE GroupFrom(Tail(articles), AddToGroup(g, Head(articles)))

\* grouped seeded with a bucket for the default category
GroupWithDefaultBucket(articles) == GroupFrom(articles, General :> <<>>)

\* grouped = {} and the loop over all_articles
GroupByCategory(articles) == GroupFrom(articles, EmptyDict)

\* categories.setdefault(cat, 0); categories[cat] += len(articles)
Tally(cats, cat, n) == [SetDefault(cats, cat, 0) EXCEPT ![cat] = @ + n]

----------------------------------------------------------------------------
(* Inputs *)

Hours      == {1, 2, 3}       \* timestamps of entries
NowChoices == {4}             \* readings of the clock
AgeChoices == {1, 2}          \* settings max_age_hours

Entry(title, link, summ, pp, up) ==
    [title |-> title, link |-> link, summary |-> summ,
     published_parsed |-> pp, updated_parsed |-> up]

Plain(pp, up) == Entry(Field(<<"T">>), Field(<<"L">>), Missing, pp, up)

\* entries that differ in their timestamps
StampEntries ==
    {Plain(pp, NoTime) : pp \in {NoTime, BadTime} \cup {StructTime(h) : h \in Hours}}
    \cup {Plain(NoTime, StructTime(h)) : h \in {1, 3}}
    \cup {Plain(StructTime(1), StructTime(3))}

\* undated entries that differ in their title
TitleEntries ==
    {Entry(t, Field(<<"L">>), Missing, NoTime, NoTime) :
        t \in {Missing, Field(<<>>), Field(<<"\r", "T", " ">>), NonString}}

\* undated entries with no link and with a summary
SummaryEntries ==
    {Entry(Field(<<"T">>), Missing, summ, NoTime, NoTime) :
        summ \in {Field(<<"<", "b", ">">> \o Amp \o <<"\f", " ", "x">>), NonString}}

FetchEntries == StampEntries \cup TitleEntries \cup SummaryEntries

\* entries of the feeds of a whole run: what fetch_feed makes of the other
\* entries is the subject of SpecFetch
DigestEntries ==
    {Plain(pp, NoTime) : pp \in {NoTime, BadTime} \cup {StructTime(h) : h \in Hours}}

TransportError == [status |-> "error", entries |-> <<>>]
Parsed(entries) == [status |-> "ok", entries |-> entries]

\* a transport error, or the entries of a parsed feed: lengths is the set of
\* the numbers of entries
Responses(E, lengths) ==
    {TransportError} \cup {Parsed(e) : e \in UNION {[1..k -> E] : k \in lengths}}

FetchResponses == Responses(FetchEntries, 0..MaxEntries)

\* the feeds of a whole run have no entry, one or two; the list the sort and
\* the grouping work on grows with MaxFeeds
DigestLengths == {0, 1, 2}

DigestResponses == Responses(DigestEntries, DigestLengths)

FeedNames == <<"f1", "f2", "f3", "f4">>

CategoryChoices == {[has |-> FALSE, val |-> General], [has |-> TRUE, val |-> "Tech"]}

\* config["feeds"]: feed k is named FeedNames[k], categories are free
FeedLists ==
    UNION {{[k \in 1..n |-> [name |-> FeedNames[k], category |-> c[k]]] :
              c \in [1..n -> CategoryChoices]} : n \in 0..MaxFeeds}

OneFeed == [name |-> "f1", category |-> [has |-> TRUE, val |-> "Tech"]]

\* raw summaries: up to MaxPieces pieces in a row
Pieces ==
    {Amp, Lt, Gt, Apos, Quot, <<"l", "t", ";">>, <<"&">>, <<"&", "n", "b", "s", "p", ";">>,
     <<"<", "b", ">">>, <<"<">>, <<">">>, <<" ">>, <<"\r">>, <<"x">>}

RECURSIVE Join(_, _)
Join(f, n) == IF n = 0 THEN <<>> ELSE Join(f, n - 1) \o f[n]

RawSummaries == UNION {{Join(f, n) : f \in [1..n -> Pieces]} : n \in 0..MaxPieces}

----------------------------------------------------------------------------
(* States before a call *)

IdleDigest ==
    /\ pc = "idle" /\ feeds = <<>> /\ max_age = 0 /\ max_per_feed = 0
    /\ all_articles = <<>> /\ categories = EmptyDict /\ grouped = EmptyDict
    /\ total = 0 /\ fetched = <<>> /\ outcomes = <<>> /\ presort = <<>>

IdleFetch ==
    /\ fpc = "idle" /\ f_max_age = 0 /\ f_max_articles = 0 /\ f_now = 0
    /\ f_response = TransportError /\ f_articles = <<>>

IdleSummary == spc = "idle" /\ raw = <<>> /\ decoded = <<>> /\ summary = <<>>

----------------------------------------------------------------------------
(* SpecSummary: one call of _clean_summary *)

InitSummary ==
    /\ IdleDigest /\ IdleFetch
    /\ spc = "call" /\ raw \in RawSummaries /\ decoded = <<>> /\ summary = <<>>

CleanSummary ==
    /\ spc = "call"
    /\ decoded' = DecodeEntities(StripTags(raw))
    /\ summary' = _clean_summary(raw)
    /\ spc' = "returned"
    /\ UNCHANGED <<raw, digestVars, fetchVars>>

NextSummary == CleanSummary

SpecSummary == InitSummary /\ [][NextSummary]_vars

----------------------------------------------------------------------------
(* SpecFetch: one call of fetch_feed *)

InitFetch ==
    /\ IdleDigest /\ IdleSummary
    /\ fpc = "call" /\ f_max_age \in AgeChoices /\ f_max_articles \in 1..MaxCap
    /\ f_now = 0 /\ f_response = TransportError /\ f_articles = <<>>

FetchFeedReturns ==
    /\ fpc = "call"
    /\ \E now \in NowChoices, response \in FetchResponses :
         LET result == fetch_feed(OneFeed, response, now, f_max_age, f_max_articles)
         IN  /\ ~result.raised
             /\ f_now' = now
             /\ f_response' = response
             /\ f_articles' = result.articles
             /\ fpc' = "returned"
    /\ UNCHANGED <<f_max_age, f_max_articles, digestVars, summaryVars>>

FetchFeedRaises ==
    /\ fpc = "call"
    /\ \E now \in NowChoices, response \in FetchResponses :
         LET result == fetch_feed(OneFeed, response, now, f_max_age, f_max_articles)
         IN  /\ result.raised
             /\ f_now' = now
             /\ f_response' = response
             /\ f_articles' = <<>>
             /\ fpc' = "raised"
    /\ UNCHANGED <<f_max_age, f_max_articles, digestVars, summaryVars>>

NextFetch == FetchFeedReturns \/ FetchFeedRaises

SpecFetch == InitFetch /\ [][NextFetch]_vars

----------------------------------------------------------------------------
(* Spec: build_digest *)

Init ==
    /\ IdleFetch /\ IdleSummary
    /\ feeds \in FeedLists
    /\ max_age \in AgeChoices
    /\ max_per_feed \in 1..MaxCap
    /\ pc = IF feeds = <<>> THEN "sort" ELSE "fetch"
    /\ all_articles = <<>> /\ categories = EmptyDict /\ grouped = EmptyDict
    /\ total = 0 /\ fetched = <<>> /\ outcomes = <<>> /\ presort = <<>>

OutcomeOf(response) ==
    IF response.status = "error" THEN "error"
    ELSE IF response.entries = <<>> THEN "empty"
    ELSE "parsed"

\* one pass of the loop over config["feeds"] in which fetch_feed returns
LoopReturns(response, now) ==
    LET feed_cfg == feeds[Len(fetched) + 1]
        result   == fetch_feed(feed_cfg, response, now, max_age, max_per_feed)
    IN  /\ ~result.raised
        /\ all_articles' = all_articles \o result.articles
        /\ categories' = Tally(categories, CategoryOf(feed_cfg), Len(result.articles))
        /\ fetched' = Append(fetched, result.articles)
        /\ outcomes' = Append(outcomes, OutcomeOf(response))
        /\ pc' = IF Len(fetched) + 1 = Len(feeds) THEN "sort" ELSE "fetch"

FeedTransportError ==
    /\ pc = "fetch"
    /\ \E now \in NowChoices : LoopReturns(TransportError, now)
    /\ UNCHANGED <<feeds, max_age, max_per_feed, grouped, total, presort,
                   fetchVars, summaryVars>>

FeedNoEntries ==
    /\ pc = "fetch"
    /\ \E now \in NowChoices : LoopReturns(Parsed(<<>>), now)
    /\ UNCHANGED <<feeds, max_age, max_per_feed, grouped, total, presort,
                   fetchVars, summaryVars>>

FeedParsed ==
    /\ pc = "fetch"
    /\ \E now \in NowChoices, response \in DigestResponses :
         /\ OutcomeOf(response) = "parsed"
         /\ LoopReturns(response, now)
    /\ UNCHANGED <<feeds, max_age, max_per_feed, grouped, total, presort,
                   fetchVars, summaryVars>>

\* one pass of the loop in which fetch_feed raises: build_digest ends there
FeedRaises ==
    /\ pc = "fetch"
    /\ \E now \in NowChoices, response \in DigestResponses :
         /\ fetch_feed(feeds[Len(fetched) + 1], response, now, max_age, max_per_feed).raised
         /\ outcomes' = Append(outcomes, OutcomeOf(response))
    /\ pc' = "aborted"
    /\ UNCHANGED <<feeds, max_age, max_per_feed, all_articles, categories,
                   grouped, total, fetched, presort, fetchVars, summaryVars>>

SortArticles ==
    /\ pc = "sort"
    /\ presort' = all_articles
    /\ all_articles' = SortNewestFirst(all_articles)
    /\ pc' = "group"
    /\ UNCHANGED <<feeds, max_age, max_per_feed, categories, grouped, total,
                   fetched, outcomes, fetchVars, summaryVars>>

\* the grouping, and total=len(all_articles) of the digest handed to the template
GroupArticles ==
    /\ pc = "group"
    /\ grouped' = GroupByCategory(all_articles)
    /\ total' = Len(all_articles)
    /\ pc' = "done"
    /\ UNCHANGED <<feeds, max_age, max_per_feed, all_articles, categories,
                   fetched, outcomes, presort, fetchVars, summaryVars>>

Next ==
    \/ FeedTransportError
    \/ FeedNoEntries
    \/ FeedParsed
    \/ FeedRaises
    \/ SortArticles
    \/ GroupArticles

Spec == Init /\ [][Next]_vars

----------------------------------------------------------------------------
(* Properties *)

Range(seq) == {seq[k] : k \in 1..Len(seq)}

RECURSIVE Flatten(_)
Flatten(lists) == IF lists = <<>> THEN <<>> ELSE Head(lists) \o Flatten(Tail(lists))

InDigest(a) == \E c \in DOMAIN grouped : a \in Range(grouped[c])

\* C1: a feed whose retrieval raises a transport error contributes no article
\* and does not end the run, and every article that the fetch of a feed
\* returned is in the flat list, and in the grouped digest once it is built.
TransportErrorIsolated ==
    /\ \A i \in 1..Len(outcomes) :
         outcomes[i] = "error" =>
            /\ i <= Len(fetched)
            /\ fetched[i] = <<>>
            /\ \A a \in Range(all_articles) : a.source # feeds[i].name
    /\ pc = "aborted" => outcomes[Len(outcomes)] # "error"
    /\ \A i \in 1..Len(fetched) : \A a \in Range(fetched[i]) :
         /\ a \in Range(all_articles)
         /\ pc = "done" => InDigest(a)

\* a run that is through, in which a feed failed with a transport error and a
\* feed after it still put its articles into the digest
TransportErrorIsolatedWitness ==
    /\ pc = "done"
    /\ \E i, j \in 1..Len(outcomes) :
         /\ i < j
         /\ outcomes[i] = "error"
         /\ outcomes[j] = "parsed"
         /\ fetched[j] # <<>>
         /\ \A a \in Range(fetched[j]) : InDigest(a)

\* C2: no call of fetch_feed ends by raising.
NoExceptionCrossesFetchFeed == fpc # "raised"

FetchCutoff == f_now - f_max_age

\* the timestamp the age test looks at: published, or else updated
StampOf(entry) ==
    IF entry.published_parsed.present THEN entry.published_parsed ELSE entry.updated_parsed

Count(seq, Test(_)) == Len(SelectSeq(seq, Test))

FirstEntries(n) == SubSeq(f_response.entries, 1, Min(Len(f_response.entries), n))

\* C3: an article with a published timestamp is not older than the cutoff of
\* its fetch; entries with neither timestamp and entries exactly at the cutoff
\* are not rejected: when the scan did not stop at the limit, each of them
\* among the scanned entries is in the result.
AgeFilter ==
    fpc = "returned" =>
        LET ExemptEntry(e) == \/ ~StampOf(e).present
                              \/ (StampOf(e).valid /\ StampOf(e).hour = FetchCutoff)
            ExemptArticle(a) == ~a.published.some \/ a.published.hour = FetchCutoff
        IN  /\ \A a \in Range(f_articles) :
                 a.published.some => a.published.hour >= FetchCutoff
            /\ Len(f_articles) < f_max_articles =>
                 Count(FirstEntries(2 * f_max_articles), ExemptEntry)
                    = Count(f_articles, ExemptArticle)

\* a fetch that dropped an old entry and kept an entry exactly at the cutoff
\* and an undated one
AgeFilterWitness ==
    /\ fpc = "returned"
    /\ \E e \in Range(f_response.entries) :
         StampOf(e).present /\ StampOf(e).valid /\ StampOf(e).hour < FetchCutoff
    /\ \E a \in Range(f_articles) : a.published.some /\ a.published.hour = FetchCutoff
    /\ \E a \in Range(f_articles) : ~a.published.some

\* C4: fetch_feed returns at most max_articles articles.
Cap == fpc = "returned" => Len(f_articles) <= f_max_articles

\* a fetch of a feed with more acceptable entries than the limit
CapWitness ==
    /\ fpc = "returned"
    /\ Len(f_articles) = f_max_articles
    /\ LET Fresh(e) == ~StampOf(e).present
                       \/ (StampOf(e).valid /\ StampOf(e).hour >= FetchCutoff)
       IN  Count(f_response.entries, Fresh) > f_max_articles

\* C5: after the sort the keys do not increase along the list and no undated
\* article stands in front of a dated one; the list is a rearrangement of the
\* collected articles (feeds in configuration order, each in upstream order)
\* in which the articles of every key keep their order.
GlobalSort ==
    pc \in {"group", "done"} =>
        /\ \A i \in 1..(Len(all_articles) - 1) :
             SortKey(all_articles[i]) >= SortKey(all_articles[i + 1])
        /\ \A i, j \in 1..Len(all_articles) :
             (i < j /\ ~all_articles[i].published.some) => ~all_articles[j].published.some
        /\ presort = Flatten(fetched)
        /\ Len(all_articles) = Len(presort)
        /\ \A k \in {SortKey(a) : a \in Range(presort) \cup Range(all_articles)} :
             LET HasKey(a) == SortKey(a) = k
             IN  SelectSeq(all_articles, HasKey) = SelectSeq(presort, HasKey)

\* a sort that moved articles, with two different articles of one timestamp
\* and an undated article among them
GlobalSortWitness ==
    /\ pc = "group"
    /\ all_articles # presort
    /\ \E i, j \in 1..Len(presort) :
         /\ i < j
         /\ presort[i] # presort[j]
         /\ presort[i].published.some
         /\ presort[i].published = presort[j].published
    /\ \E a \in Range(presort) : ~a.published.some

\* C6: every bucket is the list of the articles of its category in the order
\* of the sorted list, every article is in the bucket of its category, and so
\* within a bucket the timestamps do not increase and undated articles come
\* after the dated ones.
Grouping ==
    pc = "done" =>
        /\ \A a \in Range(all_articles) : a.category \in DOMAIN grouped
        /\ \A c \in DOMAIN grouped :
             LET InCategory(a) == a.category = c
                 bucket == grouped[c]
             IN  /\ bucket = SelectSeq(all_articles, InCategory)
                 /\ \A i, j \in 1..Len(bucket) :
                      i < j =>
                        /\ ~bucket[i].published.some => ~bucket[j].published.some
                        /\ (bucket[i].published.some /\ bucket[j].published.some)
                              => bucket[i].published.hour >= bucket[j].published.hour

\* a digest of two categories whose articles alternate in the sorted list
GroupingWitness ==
    /\ pc = "done"
    /\ Cardinality(DOMAIN grouped) = 2
    /\ Len(all_articles) >= 3
    /\ \E i \in 1..(Len(all_articles) - 2) :
         /\ all_articles[i].category # all_articles[i + 1].category
         /\ all_articles[i + 1].category # all_articles[i + 2].category

\* C7: every article has a title that is not empty, and the article made of
\* an entry without a title, or with the empty title, is titled "No title".
TitleDefault ==
    fpc = "returned" =>
        /\ \A a \in Range(f_articles) : a.title # <<>>
        /\ (Len(f_response.entries) = 1 /\ Len(f_articles) = 1) =>
              LET t == f_response.entries[1].title
              IN  (~t.has \/ t.val = <<>>) => f_articles[1].title = NoTitle

\* one pass over the text from left to right that replaces each of the five
\* entities where it stands and looks at no character it wrote
RECURSIVE SinglePassDecode(_)
SinglePassDecode(s) ==
    IF s = <<>> THEN <<>>
    ELSE IF StartsWith(s, Amp)  THEN <<"&">>  \o SinglePassDecode(SubSeq(s, 6, Len(s)))
    ELSE IF StartsWith(s, Lt)   THEN <<"<">>  \o SinglePassDecode(SubSeq(s, 5, Len(s)))
    ELSE IF StartsWith(s, Gt)   THEN <<">">>  \o SinglePassDecode(SubSeq(s, 5, Len(s)))
    ELSE IF StartsWith(s, Apos) THEN <<"'">>  \o SinglePassDecode(SubSeq(s, 6, Len(s)))
    ELSE IF StartsWith(s, Quot) THEN <<"\"">> \o SinglePassDecode(SubSeq(s, 7, Len(s)))
    ELSE <<Head(s)>> \o SinglePassDecode(Tail(s))

\* C8: the text decoded by _clean_summary is the result of one left-to-right
\* decoding pass over the text without its tags.
EntityDecoding == spc = "returned" => decoded = SinglePassDecode(StripTags(raw))

\* C9: a run in which every response is a transport error or has no entry
\* (a run over no feed is one) does not end by an error, and its digest has
\* total 0 and no category.
EmptyRun ==
    (\A i \in 1..Len(outcomes) : outcomes[i] \in {"error", "empty"}) =>
        /\ pc # "aborted"
        /\ all_articles = <<>>
        /\ pc = "done" => (total = 0 /\ DOMAIN grouped = {})

\* a run over two feeds that is through, one failed by a transport error and
\* one without entries
EmptyRunWitness ==
    /\ pc = "done"
    /\ Len(feeds) = 2
    /\ Range(outcomes) = {"error", "empty"}
    /\ total = 0

\* a run over no feed that is through
EmptyRunNoFeedWitness == pc = "done" /\ feeds = <<>> /\ total = 0

\* C10: fetch_feed returns the articles of the first max_articles entries (of
\* all, when there are fewer) among those of the first 2 * max_articles
\* entries that are not older than the cutoff, in upstream order.
ScanWindowResult ==
    (fpc = "returned" /\ f_response.status = "ok") =>
        LET NotOlder(e) == \/ ~StampOf(e).present
                           \/ (StampOf(e).valid /\ StampOf(e).hour >= FetchCutoff)
            kept   == SelectSeq(FirstEntries(2 * f_max_articles), NotOlder)
            expect == SubSeq(kept, 1, Min(Len(kept), f_max_articles))
        IN  /\ Len(f_articles) = Len(expect)
            /\ \A k \in 1..Len(expect) :
                 f_articles[k] = Article(expect[k], parse_published(expect[k]),
                                         OneFeed.name, CategoryOf(OneFeed))

\* a fetch that skipped old entries, accepted fewer than max_articles, and
\* left an acceptable entry behind the first 2 * max_articles
ScanWindowResultWitness ==
    /\ fpc = "returned"
    /\ Len(f_articles) < f_max_articles
    /\ Len(f_response.entries) > 2 * f_max_articles
    /\ ~StampOf(f_response.entries[2 * f_max_articles + 1]).present
    /\ \E e \in Range(FirstEntries(2 * f_max_articles)) :
         StampOf(e).present /\ StampOf(e).valid /\ StampOf(e).hour < FetchCutoff

\* a fetch that stopped at the limit after skipping an old entry, with
\* entries left unscanned
ScanStopsAtLimitWitness ==
    /\ fpc = "returned"
    /\ Len(f_articles) = f_max_articles
    /\ Len(f_response.entries) > f_max_articles + 1
    /\ LET e == f_response.entries[1]
       IN  StampOf(e).present /\ StampOf(e).valid /\ StampOf(e).hour < FetchCutoff

====
